---- MODULE Spec2Model ----
(***************************************************************************)
(* A model of the IntelliJ Log Analyzer backend: the Analyzer singleton    *)
(* (entities.CurrentAnalyzer), the concurrent directory scan of            *)
(* ParseLogDirectory, the reset Clear(), the lazy accessors and the        *)
(* backend facade (InitLogDirectory, UnzipToTempFodler, SetFilters).       *)
(*                                                                         *)
(* Strings are modelled lexically.  A file name is a sequence of tokens    *)
(* (<<"idea", ".", "log">>), a path is a sequence of names, so that        *)
(* strings.Contains(path, "threadDump"), filepath.Base and the first byte  *)
(* of a name are computed on the path, not looked up.                      *)
(***************************************************************************)
EXTENDS Integers, Sequences, FiniteSets, TLC

(***************************************************************************)
(* Bounds of the model.                                                    *)
(***************************************************************************)
\* How many archives may be unzipped (temporary directories created).
MaxTemp == 1

\* How many records the followed files may add to one generation of the log.
MaxLive == 2

\* How many ports getRunningIdes probes (50 in the program: 63342..63391).
MaxPorts == 3

(***************************************************************************)
(* Lexical layer: tokens, names, paths.                                    *)
(***************************************************************************)
\* The tokens of all names, in byte order of their spelling.
TokenOrder ==
    << "-", ".", "/", "1", "2", "3", "DS_Store", "IntelliJLogsAnalyzer", "build",
       "dump", "empty", "idea", "log", "logs", "misc", "notes", "report",
       "threadDump", "tmp", "txt" >>

TokenCode(t) == CHOOSE i \in 1..Len(TokenOrder) : TokenOrder[i] = t

\* Decimal digits of a timestamp token.
DigitTokens == << "1", "2", "3" >>

IsDigitToken(t) == \E d \in 1..Len(DigitTokens) : DigitTokens[d] = t

DigitValue(t) == CHOOSE d \in 1..Len(DigitTokens) : DigitTokens[d] = t

\* filepath.Base
Base(path) == path[Len(path)]

\* filepath.Join(dir, name)
Join(dir, name) == Append(dir, name)

HasToken(name, t) == \E j \in 1..Len(name) : name[j] = t

\* strings.Contains(path, t) for a token t that cannot straddle a separator
Contains(path, t) == \E i \in 1..Len(path) : HasToken(path[i], t)

\* path lies strictly below dir
IsBelow(path, dir) ==
    /\ Len(dir) < Len(path)
    /\ SubSeq(path, 1, Len(dir)) = dir

\* The bytes of a path: the tokens of its names, separated by "/".
RECURSIVE PathTokens(_)
PathTokens(path) ==
    IF path = << >> THEN << >>
    ELSE IF Len(path) = 1 THEN path[1]
    ELSE path[1] \o << "/" >> \o PathTokens(Tail(path))

\* Byte-wise comparison of two token sequences (a < b).
RECURSIVE LexLess(_, _)
LexLess(a, b) ==
    IF b = << >> THEN FALSE
    ELSE IF a = << >> THEN TRUE
    ELSE IF TokenCode(Head(a)) # TokenCode(Head(b))
         THEN TokenCode(Head(a)) < TokenCode(Head(b))
    ELSE LexLess(Tail(a), Tail(b))

\* A digest of a token sequence, folded left to right over its tokens.
RECURSIVE Digest(_, _)
Digest(h, toks) ==
    IF toks = << >> THEN h
    ELSE Digest((h * 31 + TokenCode(Head(toks))) % 65521, Tail(toks))

\* getHash: the hex rendering of the digest of the literal path string.  The
\* rendering ("%x\n") is injective, so the digest stands for its rendering.
getHash(s) == Digest(7, PathTokens(s))

\* IsHiddenFile with strings.Contains in place of the first byte.
IsHiddenFileAnywhere(filename) == HasToken(filename, ".")

\* IsHiddenFile, on a non-windows build: filename[0:1] == "."
IsHiddenFile(filename) == filename[1] = "."

(***************************************************************************)
(* The file system.  The directories a user can open, an archive that can  *)
(* be unzipped, and what each file holds.  A line of a file is a record    *)
(* [time, text]; directories hold no lines.                                *)
(***************************************************************************)
nIdeaLog == << "idea", ".", "log" >>
nThreadDump == << "threadDump", "-", "2" >>
nDumpTxt == << "dump", ".", "txt" >>
nNotes == << "notes", ".", "txt" >>
nDSStore == << ".", "DS_Store" >>
nIdeaReportTmp == << "idea", ".", "report", ".", "tmp" >>
nReportEmpty == << "report", ".", "empty" >>
nIdeaReportTxt == << "idea", ".", "report", ".", "txt" >>
nBuildTxt == << "build", ".", "txt" >>
nDumpTmp == << "dump", ".", "tmp" >>
nDumpDir == << "dump" >>
nIdeaEmpty == << "idea", ".", "empty" >>

LogsRoot == << << "logs" >> >>
MiscRoot == << << "misc" >> >>
EmptyRoot == << << "empty" >> >>
PlainRoot == << << "plain" >> >>

\* The directories the user may pass to InitLogDirectory.
UserRoots == { LogsRoot, MiscRoot, EmptyRoot, PlainRoot }

\* The directories the user opens in a session with archives, accessors and
\* live update.
OpenedRoots == { LogsRoot, MiscRoot, EmptyRoot }

UserDirs ==
    UserRoots \cup { Join(LogsRoot, nThreadDump),
                     Join(Join(LogsRoot, nThreadDump), nDumpDir) }

UserFiles ==
    { Join(LogsRoot, nIdeaLog),
      Join(Join(LogsRoot, nThreadDump), nDumpTxt),
      Join(LogsRoot, nNotes),
      Join(MiscRoot, nDSStore),
      Join(MiscRoot, nIdeaReportTmp),
      Join(MiscRoot, nReportEmpty),
      Join(MiscRoot, nIdeaReportTxt),
      Join(MiscRoot, nBuildTxt),
      Join(MiscRoot, nDumpTmp),
      Join(PlainRoot, nNotes) }

\* ioutil.TempDir("", "IntelliJLogsAnalyzer"): the k-th fresh directory.
TempDir(k) == << << "IntelliJLogsAnalyzer", DigitTokens[k] >> >>

TempDirs == { TempDir(k) : k \in 1..(MaxTemp + 1) }

\* The entries of the archive, relative to the extraction directory.
ArchiveFiles == { nIdeaLog, nIdeaEmpty }

IsTempPath(path) == path # << >> /\ path[1][1] = "IntelliJLogsAnalyzer"

\* os.DirEntry.IsDir / os.Stat(path).IsDir() of an existing entry
IsDir(path) == path \in UserDirs \/ path \in TempDirs

\* The lines of a file.
Lines(path) ==
    IF path = Join(LogsRoot, nIdeaLog)
        THEN << [time |-> 1, text |-> "a1"], [time |-> 2, text |-> "a2"] >>
    ELSE IF path = Join(MiscRoot, nIdeaReportTmp)
        THEN << [time |-> 1, text |-> "b1"] >>
    ELSE IF path = Join(MiscRoot, nIdeaReportTxt)
        THEN << [time |-> 3, text |-> "c1"], [time |-> 3, text |-> "c2"] >>
    ELSE IF path = Join(MiscRoot, nBuildTxt)
        THEN << [time |-> 1, text |-> "d1"] >>
    ELSE IF IsTempPath(path) /\ Base(path) = nIdeaLog
        THEN << [time |-> 2, text |-> "e1"], [time |-> 1, text |-> "e2"] >>
    ELSE << >>

\* filepath.WalkDir(root, visit): the entries visit is called for.
WalkDir(root, fs) ==
    IF root \in fs THEN { p \in fs : p = root \/ IsBelow(p, root) } ELSE { root }

\* os.RemoveAll(path); RemoveAll("") removes nothing.
RemoveAll(fs, path) ==
    IF path = << >> THEN fs ELSE { p \in fs : ~(p = path \/ IsBelow(p, path)) }

(***************************************************************************)
(* The registry.  "Thread Dumps" is the descriptor of entities/ThreadDumps *)
(* .go; the other descriptors stand for the remaining entity files and     *)
(* between them use every field of DynamicEntity: an ignore predicate, a   *)
(* converter that can return nothing, a DefaultVisibility function.        *)
(***************************************************************************)
\* DynamicEntity.Name, in registration order (AddDynamicEntity appends).
DynamicEntityNames == << "idea.log", "Thread Dumps", "Reports" >>

DynIdx == 1..Len(DynamicEntityNames)

\* StaticEntity.Name, in registration order (AddStaticEntity appends).
StaticEntityNames == << "Build" >>

StaticIdx == 1..Len(StaticEntityNames)

\* A converter's result: nil, or a slice of entries.
NilLogs == [isNil |-> TRUE, entries |-> << >>]

SomeLogs(es) == [isNil |-> FALSE, entries |-> es]

\* entities.isThreadDump
isThreadDump(path) == Contains(path, "threadDump") /\ IsDir(path)

\* analyzer.GetTimeStampFromThreadDump: the timestamp spelled in the path;
\* the zero time when there is none.
GetTimeStampFromThreadDump(path) ==
    LET toks == PathTokens(path)
        at == { k \in 1..Len(toks) : IsDigitToken(toks[k]) }
    IN IF at = {} THEN 0
       ELSE DigitValue(toks[CHOOSE k \in at : \A m \in at : k <= m])

\* entities.getLogEntry
getLogEntry(path) ==
    SomeLogs(<< [Severity |-> "FREEZE",
                 Time |-> GetTimeStampFromThreadDump(path),
                 Text |-> << "Freeze started: " >> \o Base(path)] >>)

\* A line-oriented converter: one INFO entry per line of the file.
LinesToLogs(path) ==
    [k \in 1..Len(Lines(path)) |->
        [Severity |-> "INFO", Time |-> Lines(path)[k].time,
         Text |-> << Lines(path)[k].text >>]]

\* DynamicEntity.CheckIgnoredPath != nil
HasCheckIgnoredPath(i) == DynamicEntityNames[i] = "Reports"

\* DynamicEntity.CheckIgnoredPath
CheckIgnoredPath(i, path) ==
    DynamicEntityNames[i] = "Reports" /\ HasToken(Base(path), "tmp")

\* DynamicEntity.CheckPath
CheckPath(i, path) ==
    CASE DynamicEntityNames[i] = "idea.log" -> HasToken(Base(path), "idea")
      [] DynamicEntityNames[i] = "Thread Dumps" -> isThreadDump(path)
      [] DynamicEntityNames[i] = "Reports" -> HasToken(Base(path), "report")

\* DynamicEntity.ConvertPathToLogs
ConvertPathToLogs(i, path) ==
    CASE DynamicEntityNames[i] = "idea.log" -> SomeLogs(LinesToLogs(path))
      [] DynamicEntityNames[i] = "Thread Dumps" -> getLogEntry(path)
      [] DynamicEntityNames[i] = "Reports" ->
            IF Lines(path) = << >> THEN NilLogs ELSE SomeLogs(LinesToLogs(path))

\* DynamicEntity.DefaultVisibility != nil
HasDefaultVisibility(i) == DynamicEntityNames[i] = "Reports"

\* DynamicEntity.DefaultVisibility; the closure of line 604 when it is nil.
DefaultVisibility(i, path) ==
    IF HasDefaultVisibility(i) THEN HasToken(Base(path), "log") ELSE TRUE

\* DynamicEntity.GetDisplayName
GetDisplayName(i, path) == Base(path)

\* DynamicEntity.LineHighlightingColor
LineHighlightingColor(i) ==
    IF DynamicEntityNames[i] = "Thread Dumps" THEN "#faa379" ELSE "#ffffff"

\* StaticEntity.CheckPath
StaticCheckPath(i, path) == HasToken(Base(path), "build")

\* StaticEntity.ConvertToStaticInfo
ConvertToStaticInfo(i, path) == [k \in 1..Len(Lines(path)) |-> Lines(path)[k].text]

\* StaticInfo{}
ZeroStaticInfo == << >>

(***************************************************************************)
(* State.                                                                  *)
(***************************************************************************)
VARIABLES
    disk,                   \* the entries that exist in the file system
    tempDirs,               \* the directories ioutil.TempDir has created
    unzipped,               \* the directories UnzipToTempFodler has returned
    Context,                \* Analyzer.Context: "nil" or a context
    FolderToWorkWith,       \* Analyzer.FolderToWorkWith (<< >> is "")
    IsFolderTemp,           \* Analyzer.IsFolderTemp
    fileWatchers,           \* Analyzer.fileWatchers
    LastModifiedFileTime,   \* Analyzer.LastModifiedFileTime (0 is the zero time)
    entityInstances,        \* DynamicEntities[i].entityInstances: path -> properties
    CollectedInfo,          \* StaticEntities[i].CollectedInfo
    Filters,                \* Analyzer.Filters: entity name -> entries
    OtherFiles,             \* Analyzer.OtherFiles
    AggregatedLogs,         \* Analyzer.AggregatedLogs
    AggregatedThreadDumps,  \* Analyzer.AggregatedThreadDumps: folder -> analysis
    AggregatedStaticInfo,   \* Analyzer.AggregatedStaticInfo: entity name -> info
    nilFields,              \* the slice and map fields of the Analyzer that are nil
    tails,                  \* the followers of EnableLogsLiveUpdate: path -> follower
    scanning,               \* InitLogDirectory is between its call and its return
    tasks,                  \* the goroutines of ParseLogDirectory, one per entry
    collectedFiles,         \* ParseLogDirectory's local collectedFiles
    writeSyncer,            \* the goroutine that holds the mutex writeSyncer, or Unlocked
    panicked,               \* the process has died of a panic or a stack overflow
    lastOp,                 \* the operation that ran last, when a property asks for it
    err,                    \* what the last InitLogDirectory returned
    appended,               \* history: the records in the order they were appended
    clearedHash,            \* history: the identifiers last cleared, kept through the next scan
    analyses,               \* history: analyzeThreadDumpsFolder calls per key since Clear
    resetTemp,              \* history: the unzipped working directories a reset has met
    ides,                   \* getRunningIdes: the result slice its goroutines share
    probes,                 \* getRunningIdes: the goroutine of each port
    probing,                \* getRunningIdes is between its call and its return
    IdePropertiesMap,       \* the package variable IdePropertiesMap
    lastProperty            \* the last GetIdePropertyByName call: name, binary, value

analyzerVars ==
    << Context, FolderToWorkWith, IsFolderTemp, fileWatchers, LastModifiedFileTime,
       entityInstances, CollectedInfo, Filters, OtherFiles, AggregatedLogs,
       AggregatedThreadDumps, AggregatedStaticInfo, nilFields >>

scanVars == << scanning, tasks, collectedFiles, writeSyncer >>

worldVars == << disk, tempDirs, unzipped >>

historyVars == << appended, clearedHash, analyses, resetTemp >>

liveVars == << tails >>

ideVars == << ides, probes, probing, IdePropertiesMap, lastProperty >>

vars ==
    << analyzerVars, scanVars, worldVars, historyVars, liveVars, ideVars,
       panicked, lastOp, err >>

NilableFields ==
    { "fileWatchers", "Filters", "OtherFiles", "AggregatedLogs",
      "AggregatedThreadDumps", "AggregatedStaticInfo" }

EmptyMap == [x \in {} |-> 0]

\* sync.Mutex{}: no goroutine holds it.
Unlocked == << >>

\* The zero Analyzer and its environment, with the dynamic descriptors and
\* the first n of the static entities registered.
ZeroAnalyzer(n) ==
    /\ disk = UserDirs \cup UserFiles
    /\ tempDirs = {}
    /\ unzipped = {}
    /\ Context = "nil"
    /\ FolderToWorkWith = << >>
    /\ IsFolderTemp = FALSE
    /\ fileWatchers = << >>
    /\ LastModifiedFileTime = 0
    /\ entityInstances = [i \in DynIdx |-> EmptyMap]
    /\ CollectedInfo = [i \in 1..n |-> ZeroStaticInfo]
    /\ Filters = EmptyMap
    /\ OtherFiles = << >>
    /\ AggregatedLogs = << >>
    /\ AggregatedThreadDumps = EmptyMap
    /\ AggregatedStaticInfo = EmptyMap
    /\ nilFields = NilableFields
    /\ tails = EmptyMap
    /\ scanning = FALSE
    /\ tasks = EmptyMap
    /\ collectedFiles = {}
    /\ writeSyncer = Unlocked
    /\ panicked = FALSE
    /\ lastOp = "init"
    /\ err = "none"
    /\ appended = << >>
    /\ clearedHash = EmptyMap
    /\ analyses = EmptyMap
    /\ resetTemp = {}
    /\ ides = << >>
    /\ probes = EmptyMap
    /\ probing = FALSE
    /\ IdePropertiesMap = EmptyMap
    /\ lastProperty = << >>

\* The zero Analyzer, with the descriptors the init() functions registered.
Init == ZeroAnalyzer(Len(StaticEntityNames))

\* The zero Analyzer when no AddStaticEntity call was made.
BareInit == ZeroAnalyzer(0)

\* The caller is between two calls of the backend.
Idle == ~scanning /\ ~panicked

(***************************************************************************)
(* Pure parts of the Analyzer.                                             *)
(***************************************************************************)
\* reflect.ValueOf(*a).IsZero(): every field of the struct is its zero value.
IsEmpty ==
    /\ Context = "nil"
    /\ FolderToWorkWith = << >>
    /\ ~IsFolderTemp
    /\ "fileWatchers" \in nilFields
    /\ LastModifiedFileTime = 0
    /\ Len(DynamicEntityNames) = 0
    /\ Len(CollectedInfo) = 0
    /\ "Filters" \in nilFields
    /\ "OtherFiles" \in nilFields
    /\ "AggregatedLogs" \in nilFields
    /\ "AggregatedThreadDumps" \in nilFields
    /\ "AggregatedStaticInfo" \in nilFields

\* Logs.IsEmpty
LogsIsEmpty(logs) == Len(logs) = 0

\* Filters.IsEmpty
FiltersIsEmpty(filters) == DOMAIN filters = {}

\* addDynamicEntityInstance with an identifier that also depends on how many
\* instances the descriptor already has.
addDynamicEntityInstanceCounted(instances, path, visible) ==
    [p \in DOMAIN instances \cup {path} |->
        IF p = path
            THEN [Hash |-> getHash(path) + Cardinality(DOMAIN instances),
                  Visible |-> visible]
        ELSE instances[p]]

\* DynamicEntity.addDynamicEntityInstance
addDynamicEntityInstance(instances, path, visible) ==
    [p \in DOMAIN instances \cup {path} |->
        IF p = path THEN [Hash |-> getHash(path), Visible |-> visible]
        ELSE instances[p]]

\* Logs.AppendSeveral: the entries, attributed to the entity and its instance.
AppendSeveral(logs, name, instance, entries) ==
    logs \o [k \in 1..Len(entries) |->
                [Severity |-> entries[k].Severity, Time |-> entries[k].Time,
                 Text |-> entries[k].Text, EntityName |-> name,
                 ID |-> instance.Hash, Visible |-> instance.Visible]]

\* The place of a record in a time-sorted log: after every record that is
\* not later than it.
RECURSIVE InsertByTime(_, _)
InsertByTime(sorted, e) ==
    IF sorted = << >> THEN << e >>
    ELSE IF e.Time < Head(sorted).Time THEN << e >> \o sorted
    ELSE << Head(sorted) >> \o InsertByTime(Tail(sorted), e)

\* Logs.SortByTime: a stable sort, ascending by Time.
RECURSIVE SortByTime(_)
SortByTime(logs) ==
    IF logs = << >> THEN << >>
    ELSE InsertByTime(SortByTime(SubSeq(logs, 1, Len(logs) - 1)), logs[Len(logs)])

\* OtherFiles.FilterAnalyzedDirectories: drops what lies within a collected path.
FilterAnalyzedDirectories(files, collected) ==
    SelectSeq(files, LAMBDA f : ~(\E c \in collected : IsBelow(f, c)))

\* Filters.Append: the entry of one instance.
FilterEntry(i, path, instance) ==
    [ID |-> instance.Hash, Label |-> GetDisplayName(i, path),
     EntityName |-> DynamicEntityNames[i], Color |-> LineHighlightingColor(i),
     Checked |-> instance.Visible]

\* The place of an entry in a group sorted by label: after every entry whose
\* label is not greater.
RECURSIVE InsertByLabel(_, _)
InsertByLabel(sorted, e) ==
    IF sorted = << >> THEN << e >>
    ELSE IF LexLess(e.Label, Head(sorted).Label) THEN << e >> \o sorted
    ELSE << Head(sorted) >> \o InsertByLabel(Tail(sorted), e)

\* Filters.SortByFilename: the entries of a group, by label.
RECURSIVE SortByFilename(_)
SortByFilename(entries) ==
    IF entries = << >> THEN << >>
    ELSE InsertByLabel(SortByFilename(SubSeq(entries, 1, Len(entries) - 1)),
                       entries[Len(entries)])

\* The paths of a set, in the byte order of their spelling.
RECURSIVE PathsInOrder(_)
PathsInOrder(paths) ==
    IF paths = {} THEN << >>
    ELSE LET m == CHOOSE x \in paths :
                    \A y \in paths : ~LexLess(PathTokens(y), PathTokens(x))
         IN << m >> \o PathsInOrder(paths \ {m})

\* GenerateFilters appending to the index it finds.
InitFilterKeep(filters) == filters

\* Analyzer.InitFilter: a.Filters = make(Filters)
InitFilter(filters) == EmptyMap

\* Filters.Append(entity, path): one more entry in the group of entity.Name.
FiltersAppend(filters, i, path, instance) ==
    LET name == DynamicEntityNames[i]
        group == IF name \in DOMAIN filters THEN filters[name] ELSE << >>
    IN [n \in DOMAIN filters \cup {name} |->
            IF n = name THEN Append(group, FilterEntry(i, path, instance))
            ELSE filters[n]]

\* Line 623-625: the inner loop of GenerateFilters, over the instances of
\* descriptor i.
RECURSIVE AppendInstances(_, _, _, _)
AppendInstances(filters, i, paths, instances) ==
    IF paths = << >> THEN filters
    ELSE AppendInstances(FiltersAppend(filters, i, Head(paths), instances[i][Head(paths)]),
                         i, Tail(paths), instances)

\* Line 622-626: the outer loop of GenerateFilters, from descriptor i on.
RECURSIVE AppendEntities(_, _, _)
AppendEntities(filters, i, instances) ==
    IF i > Len(DynamicEntityNames) THEN filters
    ELSE AppendEntities(AppendInstances(filters, i, PathsInOrder(DOMAIN instances[i]),
                                        instances),
                        i + 1, instances)

\* Analyzer.GenerateFilters: what it leaves in a.Filters.
GenerateFilters(instances) ==
    LET filter == AppendEntities(InitFilter(Filters), 1, instances)
    IN [name \in DOMAIN filter |-> SortByFilename(filter[name])]

\* aggregateStaticInfo
aggregateStaticInfo(info) ==
    [name \in { StaticEntityNames[i] : i \in DOMAIN info } |->
        info[CHOOSE i \in DOMAIN info : StaticEntityNames[i] = name]]

(***************************************************************************)
(* Clear and the scan.                                                     *)
(***************************************************************************)
\* The paths that have an instance in some descriptor.
InstancePaths(instances) == UNION { DOMAIN instances[i] : i \in DynIdx }

\* History: the identifier each of these paths carries.
HashOfPaths(instances) ==
    [p \in InstancePaths(instances) |->
        instances[CHOOSE i \in DynIdx : p \in DOMAIN instances[i]][p].Hash]

\* tail.Tail.Stop(): the follower ends; a line it has already handed over is
\* still with the goroutine that reads the follower's Lines channel.
Stop(tail) == [tail EXCEPT !.watching = FALSE]

\* Clear without the loop of lines 657-661.
StopNone(watchers, followers) == followers

\* Lines 657-661: every watcher of the list that is not nil is stopped.  A
\* stopped follower without a line in hand is gone.
StopAll(watchers, followers) ==
    LET stopped == { watchers[k].path : k \in { n \in 1..Len(watchers) : ~watchers[n].isNil } }
        after == [p \in DOMAIN followers |->
                    IF p \in stopped THEN Stop(followers[p]) ELSE followers[p]]
    IN [p \in { q \in DOMAIN after : after[q].watching \/ after[q].pending } |->
            after[p]]

\* History: the identifiers of the instances of the last generation that
\* had any, as a reset leaves them.
ClearedHashes ==
    IF InstancePaths(entityInstances) = {} THEN clearedHash
    ELSE HashOfPaths(entityInstances)

\* Analyzer.Clear
ClearBody ==
    /\ AggregatedLogs' = << >>
    /\ Filters' = EmptyMap
    /\ OtherFiles' = << >>
    /\ AggregatedStaticInfo' = EmptyMap
    /\ AggregatedThreadDumps' = EmptyMap
    /\ LastModifiedFileTime' = 0
    /\ CollectedInfo' = [i \in DOMAIN CollectedInfo |-> ZeroStaticInfo]
    /\ entityInstances' = [i \in DynIdx |-> EmptyMap]
    /\ disk' = IF IsFolderTemp THEN RemoveAll(disk, FolderToWorkWith) ELSE disk
    /\ IsFolderTemp' = FALSE
    /\ tails' = StopAll(fileWatchers, tails)
    /\ fileWatchers' = << >>
    /\ nilFields' = {"fileWatchers"}
    /\ appended' = << >>
    /\ analyses' = EmptyMap
    /\ resetTemp' = resetTemp \cup ({FolderToWorkWith} \cap unzipped)

\* A call of Analyzer.Clear by the caller of the backend.
Clear ==
    /\ Idle
    /\ ClearBody
    /\ clearedHash' = ClearedHashes
    /\ lastOp' = IF lastOp \in { "Clear", "Clear; Clear" } THEN "Clear; Clear" ELSE "Clear"
    /\ UNCHANGED << Context, FolderToWorkWith, scanVars, tempDirs, unzipped,
                    panicked, err >>
    /\ UNCHANGED ideVars

\* CollectLogsFromDynamicEntities from descriptor i on, up to its next effect:
\* an ignore predicate matches (return true), descriptor j converts the path
\* to a non-nil result (the locked append), or the loop ends.
RECURSIVE DynEvent(_, _)
DynEvent(path, i) ==
    IF i > Len(DynamicEntityNames) THEN [kind |-> "end", j |-> i]
    ELSE IF HasCheckIgnoredPath(i) /\ CheckIgnoredPath(i, path)
        THEN [kind |-> "ignore", j |-> i]
    ELSE IF CheckPath(i, path) /\ ~ConvertPathToLogs(i, path).isNil
        THEN [kind |-> "write", j |-> i]
    ELSE DynEvent(path, i + 1)

\* CollectStaticInfoFromStaticEntities from entity s on: the next entity
\* whose CheckPath holds, or Len + 1.
RECURSIVE StaticEvent(_, _)
StaticEvent(path, s) ==
    IF s > Len(CollectedInfo) THEN s
    ELSE IF StaticCheckPath(s, path) THEN s
    ELSE StaticEvent(path, s + 1)

\* The orders in which the init() functions may have registered the
\* descriptors: AddDynamicEntity appends, the order of init() across the
\* files of the package is not fixed by the descriptors.
RegistryOrders ==
    { o \in [DynIdx -> DynIdx] : \A a \in DynIdx : \A b \in DynIdx : o[a] = o[b] => a = b }

\* The order of DynamicEntityNames.
RegisteredOrder == [k \in DynIdx |-> k]

\* No record, no instance, not analysed.
NoOutcome == [records |-> {}, instances |-> {}, analyzed |-> FALSE]

\* CollectLogsFromDynamicEntities(path) for a registry in the given order,
\* from its k-th descriptor on: the records appended, the descriptors that
\* got an instance, and the value returned.
RECURSIVE Classify(_, _, _, _)
Classify(order, k, path, outcome) ==
    IF k > Len(DynamicEntityNames) THEN outcome
    ELSE LET i == order[k]
             logEntries == ConvertPathToLogs(i, path)
         IN IF HasCheckIgnoredPath(i) /\ CheckIgnoredPath(i, path)
                THEN [outcome EXCEPT !.analyzed = TRUE]
            ELSE IF CheckPath(i, path) /\ ~logEntries.isNil
                THEN Classify(order, k + 1, path,
                              [records |-> outcome.records \cup
                                    { << DynamicEntityNames[i], logEntries.entries[n] >> :
                                        n \in 1..Len(logEntries.entries) },
                               instances |-> outcome.instances \cup { DynamicEntityNames[i] },
                               analyzed |-> TRUE])
            ELSE Classify(order, k + 1, path, outcome)

\* A goroutine of visit: about to run descriptor i of the dynamic loop and
\* static entity s of the static loop.
NewTask == [i |-> 1, analyzed |-> FALSE, s |-> 1, isStatic |-> FALSE, done |-> FALSE]

\* The goroutine of the path writes nothing: no descriptor and no static
\* entity has an effect for the path, and lines 500-506 file it nowhere (a
\* directory or a hidden file that was not collected).
WritesNothing(path, fs) ==
    /\ DynEvent(path, 1).kind = "end"
    /\ StaticEvent(path, 1) > Len(CollectedInfo)
    /\ path \in fs
    /\ IsDir(path) \/ IsHiddenFile(Base(path))

\* The goroutine visit starts for the path.  One that writes nothing takes
\* no step that another goroutine or the caller can observe, and counts as
\* done from the start.
StartTask(path, fs) ==
    IF WritesNothing(path, fs) THEN [NewTask EXCEPT !.done = TRUE] ELSE NewTask

\* InitLogDirectory, from its call to the end of the walk: Clear, the two
\* assignments, and one goroutine for every entry WalkDir visits.
InitLogDirectoryCall(path, ctx) ==
    /\ Idle
    /\ ClearBody
    /\ clearedHash' = [p \in { q \in DOMAIN ClearedHashes : q = path \/ IsBelow(q, path) } |->
                          ClearedHashes[p]]
    /\ Context' = ctx
    /\ FolderToWorkWith' = path
    /\ scanning' = TRUE
    /\ tasks' = [p \in WalkDir(path, disk') |-> StartTask(p, disk')]
    /\ collectedFiles' = {}
    /\ UNCHANGED writeSyncer
    /\ lastOp' = "scan"
    /\ err' = "none"
    /\ UNCHANGED << tempDirs, unzipped, panicked >>
    /\ UNCHANGED ideVars

\* CollectLogsFromDynamicEntities has returned
DynReturned(path, t) == DynEvent(path, t.i).kind # "write"

\* the value it returned
IsDynamic(path, t) == t.analyzed \/ DynEvent(path, t.i).kind = "ignore"

\* Line 610 with an assignment in place of the append.
CollectedLogsOverwrite(logs, j, path, instance) ==
    AppendSeveral(<< >>, DynamicEntityNames[j], instance,
                  ConvertPathToLogs(j, path).entries)

\* Line 610: the records of descriptor j for the path join the aggregate.
CollectedLogs(logs, j, path, instance) ==
    AppendSeveral(logs, DynamicEntityNames[j], instance, ConvertPathToLogs(j, path).entries)

\* The goroutine of the path is at a writeSyncer.Lock(): line 608, before
\* the records of a descriptor are appended, or line 499.
AtLock(path) ==
    \/ DynEvent(path, tasks[path].i).kind = "write"
    \/ /\ DynReturned(path, tasks[path])
       /\ StaticEvent(path, tasks[path].s) > Len(CollectedInfo)

\* writeSyncer.Lock() of lines 608 and 499 returns, as a step of its own.
TaskLock(path) ==
    /\ scanning /\ ~panicked
    /\ path \in DOMAIN tasks
    /\ ~tasks[path].done
    /\ AtLock(path)
    /\ writeSyncer = Unlocked
    /\ writeSyncer' = path
    /\ UNCHANGED << analyzerVars, scanning, tasks, collectedFiles, worldVars,
                    historyVars, liveVars, panicked, lastOp, err >>
    /\ UNCHANGED ideVars

\* Lines 609-610: the instance is registered and its records are appended.
RegisterAndAppend(path) ==
    /\ scanning /\ ~panicked
    /\ path \in DOMAIN tasks
    /\ DynEvent(path, tasks[path].i).kind = "write"
    /\ LET j == DynEvent(path, tasks[path].i).j
           instances == addDynamicEntityInstance(entityInstances[j], path,
                                                 DefaultVisibility(j, path))
       IN /\ entityInstances' = [entityInstances EXCEPT ![j] = instances]
          /\ AggregatedLogs' = CollectedLogs(AggregatedLogs, j, path, instances[path])
          /\ tasks' = [tasks EXCEPT ![path].i = j + 1, ![path].analyzed = TRUE]
    /\ appended' = AggregatedLogs'
    /\ UNCHANGED << Context, FolderToWorkWith, IsFolderTemp, fileWatchers,
                    LastModifiedFileTime, CollectedInfo, Filters, OtherFiles,
                    AggregatedThreadDumps, AggregatedStaticInfo, nilFields,
                    scanning, collectedFiles, worldVars, analyses, resetTemp,
                    clearedHash, panicked, lastOp, err >>
    /\ UNCHANGED liveVars
    /\ UNCHANGED ideVars

\* Lines 608-611 as one step: Lock, the writes, Unlock.
TaskDynamic(path) ==
    /\ writeSyncer = Unlocked
    /\ RegisterAndAppend(path)
    /\ UNCHANGED writeSyncer

\* Lines 609-611 as a step of their own: the writes and Unlock, by the
\* goroutine that holds writeSyncer.
UnlockDynamic(path) ==
    /\ writeSyncer = path
    /\ RegisterAndAppend(path)
    /\ writeSyncer' = Unlocked

\* Line 582: the static entity's CollectedInfo is overwritten (no lock held).
TaskStatic(path) ==
    /\ scanning /\ ~panicked
    /\ UNCHANGED writeSyncer
    /\ path \in DOMAIN tasks
    /\ DynReturned(path, tasks[path])
    /\ StaticEvent(path, tasks[path].s) <= Len(CollectedInfo)
    /\ LET j == StaticEvent(path, tasks[path].s)
       IN /\ CollectedInfo' = [CollectedInfo EXCEPT ![j] = ConvertToStaticInfo(j, path)]
          /\ tasks' = [tasks EXCEPT ![path].s = j + 1, ![path].isStatic = TRUE]
    /\ UNCHANGED << Context, FolderToWorkWith, IsFolderTemp, fileWatchers,
                    LastModifiedFileTime, entityInstances, Filters, OtherFiles,
                    AggregatedLogs, AggregatedThreadDumps, AggregatedStaticInfo,
                    nilFields, scanning, collectedFiles, worldVars, historyVars,
                    panicked, lastOp, err >>
    /\ UNCHANGED liveVars
    /\ UNCHANGED ideVars

\* Line 500 with && in place of ||.
IsCollectedBoth(isStatic, isDynamic) == isStatic /\ isDynamic

\* Line 500: the path was analysed by an entity.
IsCollected(isStatic, isDynamic) == isStatic \/ isDynamic

\* Lines 500-506: the path is filed as collected or as an other file.  file
\* is nil when WalkDir could not stat the root.
FileThePath(path) ==
    /\ scanning /\ ~panicked
    /\ path \in DOMAIN tasks
    /\ ~tasks[path].done
    /\ DynReturned(path, tasks[path])
    /\ StaticEvent(path, tasks[path].s) > Len(CollectedInfo)
    /\ tasks' = [tasks EXCEPT ![path].done = TRUE]
    /\ IF IsCollected(tasks[path].isStatic, IsDynamic(path, tasks[path]))
          THEN /\ collectedFiles' = collectedFiles \cup {path}
               /\ UNCHANGED << OtherFiles, panicked >>
       ELSE IF path \notin disk
          THEN /\ panicked' = TRUE
               /\ UNCHANGED << OtherFiles, collectedFiles >>
       ELSE IF ~IsDir(path) /\ ~IsHiddenFile(Base(path))
          THEN /\ OtherFiles' = Append(OtherFiles, path)
               /\ UNCHANGED << collectedFiles, panicked >>
       ELSE UNCHANGED << OtherFiles, collectedFiles, panicked >>
    /\ UNCHANGED << Context, FolderToWorkWith, IsFolderTemp, fileWatchers,
                    LastModifiedFileTime, entityInstances, CollectedInfo, Filters,
                    AggregatedLogs, AggregatedThreadDumps, AggregatedStaticInfo,
                    nilFields, scanning, worldVars, historyVars, lastOp, err >>
    /\ UNCHANGED liveVars
    /\ UNCHANGED ideVars

\* Lines 499-507 as one step: Lock, the filing, Unlock.
TaskFinal(path) ==
    /\ writeSyncer = Unlocked
    /\ FileThePath(path)
    /\ UNCHANGED writeSyncer

\* Lines 500-507 as a step of their own: the filing and Unlock, by the
\* goroutine that holds writeSyncer.
UnlockFinal(path) ==
    /\ writeSyncer = path
    /\ FileThePath(path)
    /\ writeSyncer' = Unlocked

\* InitLogDirectory without its SortByTime call.
LogsAtReturnUnsorted(logs) == logs

\* part_000 line 27: what InitLogDirectory leaves in AggregatedLogs.
LogsAtReturn(logs) == SortByTime(logs)

\* Line 513: what ParseLogDirectory leaves in OtherFiles.
OtherFilesAtReturn(files, collected) == FilterAnalyzedDirectories(files, collected)

\* part_000 lines 29-33: the value InitLogDirectory returns.
InitResult(empty) == IF empty THEN "could not find logs elements inside" ELSE "nil"

\* ParseLogDirectory without the barrier of line 512.
WaitReturnsAtOnce(goroutines) == TRUE

\* Line 512, wg.Wait(): it returns when every goroutine that visit started
\* (wg.Add(1), line 494, before the go statement) has run its deferred
\* wg.Done().
Wait(goroutines) == \A p \in DOMAIN goroutines : goroutines[p].done

\* wg.Wait() has returned: the rest of ParseLogDirectory and of InitLogDirectory.
InitLogDirectoryReturn ==
    /\ scanning /\ ~panicked
    /\ Wait(tasks)
    /\ OtherFiles' = OtherFilesAtReturn(OtherFiles, collectedFiles)
    /\ AggregatedLogs' = LogsAtReturn(AggregatedLogs)
    /\ Filters' = GenerateFilters(entityInstances)
    /\ nilFields' = nilFields \ {"Filters"}
    /\ UNCHANGED << Context, FolderToWorkWith, IsFolderTemp, fileWatchers,
                    LastModifiedFileTime, entityInstances, CollectedInfo,
                    AggregatedThreadDumps, AggregatedStaticInfo >>
    /\ err' = InitResult(IsEmpty')
    /\ scanning' = FALSE
    /\ tasks' = EmptyMap
    /\ collectedFiles' = {}
    /\ UNCHANGED writeSyncer
    /\ lastOp' = "InitLogDirectory"
    /\ clearedHash' = EmptyMap
    /\ UNCHANGED << worldVars, appended, analyses, resetTemp, panicked >>
    /\ UNCHANGED liveVars
    /\ UNCHANGED ideVars

(***************************************************************************)
(* The accessors and the rest of the backend facade.                       *)
(***************************************************************************)
\* A returned pointer: nil, or what it points to.
NilPointer == [isNil |-> TRUE, size |-> 0]

PointerTo(collection) == [isNil |-> FALSE, size |-> Cardinality(DOMAIN collection)]

\* Analyzer.GetLogs
GetLogs == IF ~LogsIsEmpty(AggregatedLogs) THEN PointerTo(AggregatedLogs) ELSE NilPointer

\* Analyzer.GetOtherFiles
GetOtherFiles == IF ~LogsIsEmpty(AggregatedLogs) THEN PointerTo(OtherFiles) ELSE NilPointer

\* Analyzer.GetFilters
GetFilters == IF ~FiltersIsEmpty(Filters) THEN PointerTo(Filters) ELSE NilPointer

\* What Analyzer.GetStaticInfo leaves in AggregatedStaticInfo, and returns a
\* pointer to: the aggregate when it has an entry, else a fresh aggregate.
StaticInfoAfterGet ==
    IF Cardinality(DOMAIN AggregatedStaticInfo) # 0 THEN AggregatedStaticInfo
    ELSE aggregateStaticInfo(CollectedInfo)

\* Analyzer.GetStaticInfo.  A fresh aggregate without entries makes the
\* method call itself without end, which ends the process.
GetStaticInfo ==
    /\ Idle
    /\ AggregatedStaticInfo' = StaticInfoAfterGet
    /\ nilFields' = nilFields \ {"AggregatedStaticInfo"}
    /\ panicked' = (Cardinality(DOMAIN StaticInfoAfterGet) = 0)
    /\ lastOp' = "other"
    /\ UNCHANGED << Context, FolderToWorkWith, IsFolderTemp, fileWatchers,
                    LastModifiedFileTime, entityInstances, CollectedInfo, Filters,
                    OtherFiles, AggregatedLogs, AggregatedThreadDumps, scanVars,
                    worldVars, historyVars, err >>
    /\ UNCHANGED liveVars
    /\ UNCHANGED ideVars

\* The folder keys the presentation layer asks for.
ThreadDumpKeys == { nThreadDump, nNotes }

\* analyzeThreadDumpsFolder: the files of the folder, each with its lines.
analyzeThreadDumpsFolder(dir, folder) ==
    [isNil |-> FALSE,
     files |-> { p \in disk : IsBelow(p, Join(dir, folder)) /\ ~IsDir(p) }]

\* One more call of analyzeThreadDumpsFolder for the key.
CountAnalysis(counts, key) ==
    [k \in DOMAIN counts \cup {key} |->
        IF k = key THEN (IF key \in DOMAIN counts THEN counts[key] ELSE 0) + 1
        ELSE counts[k]]

\* GetThreadDump without the check of the cache.
IsCachedNever(cache, key) == FALSE

\* The cache holds an analysis for the key (t != nil).
IsCached(cache, key) == key \in DOMAIN cache /\ ~cache[key].isNil

\* Analyzer.GetThreadDump.  Storing into the nil map of a zero Analyzer
\* panics; an analysis that is nil makes the method call itself without end.
GetThreadDump(threadDumpsFolder) ==
    /\ Idle
    /\ lastOp' = IF IsCached(AggregatedThreadDumps, threadDumpsFolder)
                   THEN "GetThreadDump (cached)" ELSE "other"
    /\ IF IsCached(AggregatedThreadDumps, threadDumpsFolder)
          THEN UNCHANGED << AggregatedThreadDumps, analyses, panicked >>
       ELSE IF "AggregatedThreadDumps" \in nilFields
          THEN /\ panicked' = TRUE
               /\ UNCHANGED << AggregatedThreadDumps, analyses >>
       ELSE LET t == analyzeThreadDumpsFolder(FolderToWorkWith, threadDumpsFolder)
            IN /\ AggregatedThreadDumps' =
                      [k \in DOMAIN AggregatedThreadDumps \cup {threadDumpsFolder} |->
                          IF k = threadDumpsFolder THEN t ELSE AggregatedThreadDumps[k]]
               /\ analyses' = CountAnalysis(analyses, threadDumpsFolder)
               /\ panicked' = t.isNil
    /\ UNCHANGED << Context, FolderToWorkWith, IsFolderTemp, fileWatchers,
                    LastModifiedFileTime, entityInstances, CollectedInfo, Filters,
                    OtherFiles, AggregatedLogs, AggregatedStaticInfo, nilFields,
                    scanVars, worldVars, appended, clearedHash, resetTemp, err >>
    /\ UNCHANGED liveVars
    /\ UNCHANGED ideVars

\* The identifiers the presentation layer may send: that of a file, and one
\* that belongs to no entry.
FilterIds ==
    { getHash(Join(LogsRoot, nIdeaLog)), 0 }

\* The maps the presentation layer may send: a flag for each identifier.
FilterInputs == [FilterIds -> BOOLEAN]

\* SetFilters assigning to the copy the range clause made of the entry.
SetEntryOfCopy(entry, f) == entry

\* The entry after SetFilters(f).
SetEntry(entry, f) ==
    IF entry.ID \in DOMAIN f THEN [entry EXCEPT !.Checked = f[entry.ID]] ELSE entry

\* SetFilters
SetFilters(f) ==
    /\ Idle
    /\ lastOp' = "other"
    /\ Filters' = [name \in DOMAIN Filters |->
                      [k \in DOMAIN Filters[name] |-> SetEntry(Filters[name][k], f)]]
    /\ UNCHANGED << Context, FolderToWorkWith, IsFolderTemp, fileWatchers,
                    LastModifiedFileTime, entityInstances, CollectedInfo, OtherFiles,
                    AggregatedLogs, AggregatedThreadDumps, AggregatedStaticInfo,
                    nilFields, scanVars, worldVars, historyVars, panicked, err >>
    /\ UNCHANGED liveVars
    /\ UNCHANGED ideVars

\* A call of Analyzer.GenerateFilters by the presentation layer.
GenerateFiltersCall ==
    /\ Idle
    /\ Filters' = GenerateFilters(entityInstances)
    /\ nilFields' = nilFields \ {"Filters"}
    /\ lastOp' = "GenerateFilters"
    /\ UNCHANGED << Context, FolderToWorkWith, IsFolderTemp, fileWatchers,
                    LastModifiedFileTime, entityInstances, CollectedInfo, OtherFiles,
                    AggregatedLogs, AggregatedThreadDumps, AggregatedStaticInfo,
                    scanVars, worldVars, historyVars, panicked, err >>
    /\ UNCHANGED liveVars
    /\ UNCHANGED ideVars

\* The archives the user may open: one that extracts, one zip cannot open.
Archives == { "bundle.zip", "broken.zip" }

\* UnzipToTempFodler: TempDir, then either "" (the archive cannot be
\* opened) or the extraction, IsFolderTemp = true and the directory.
UnzipToTempFodler(src) ==
    /\ Idle
    /\ Cardinality(tempDirs) < MaxTemp
    /\ LET dest == TempDir(Cardinality(tempDirs) + 1)
       IN /\ tempDirs' = tempDirs \cup {dest}
          /\ IF src = "broken.zip"
                THEN /\ disk' = disk \cup {dest}
                     /\ UNCHANGED << IsFolderTemp, unzipped >>
             ELSE /\ disk' = disk \cup {dest} \cup { Join(dest, f) : f \in ArchiveFiles }
                  /\ IsFolderTemp' = TRUE
                  /\ unzipped' = unzipped \cup {dest}
    /\ lastOp' = "other"
    /\ UNCHANGED << Context, FolderToWorkWith, fileWatchers, LastModifiedFileTime,
                    entityInstances, CollectedInfo, Filters, OtherFiles,
                    AggregatedLogs, AggregatedThreadDumps, AggregatedStaticInfo,
                    nilFields, scanVars, historyVars, panicked, err >>
    /\ UNCHANGED liveVars
    /\ UNCHANGED ideVars

(***************************************************************************)
(* Live update.  A follower per instance of a descriptor that has a        *)
(* changeable path; each follower hands the lines the file gains, one at a *)
(* time, to the goroutine that converts and appends them.  What a line     *)
(* holds is drawn when it is converted.                                    *)
(***************************************************************************)
\* DynamicEntity.GetChangeablePath != nil.  The "Thread Dumps" descriptor
\* defines neither GetChangeablePath nor ConvertStringToLogs.
HasGetChangeablePath(i) == DynamicEntityNames[i] = "Reports"

\* DynamicEntity.GetChangeablePath: a simple log file is followed itself.
GetChangeablePath(i, path) == path

\* The lines a followed file may gain: a well-formed one, dated before the
\* lines the file holds, and one that does not fit the format.
LiveLines == { [ok |-> TRUE, time |-> 1, text |-> "n1"],
               [ok |-> FALSE, time |-> 0, text |-> "??"] }

\* DynamicEntity.ConvertStringToLogs: the entry, or an error.
ConvertStringToLogs(i, line) ==
    [isErr |-> ~line.ok,
     entry |-> [Severity |-> "INFO", Time |-> line.time, Text |-> << line.text >>]]

\* The record is one a follower contributed.
IsLiveRecord(record) == \E line \in LiveLines : record.Text = << line.text >>

\* The paths enable() follows: the changeable path of every instance of
\* every descriptor that has one.
Watchable(instances) ==
    UNION { { GetChangeablePath(i, path) : path \in DOMAIN instances[i] } :
                i \in { j \in DynIdx : HasGetChangeablePath(j) } }

\* The descriptor whose instance a followed path is.
WatchedEntity(path) == CHOOSE i \in DynIdx : HasGetChangeablePath(i) /\ CheckPath(i, path)

\* An entry of fileWatchers: a *tail.Tail, nil when the follower did not start.
Watcher(path, failed) == [path |-> path, isNil |-> failed]

\* A follower that has started and has no line in hand.
NewTail == [watching |-> TRUE, pending |-> FALSE]

\* Analyzer.EnableLogsLiveUpdate: one watcher per followed path.  The
\* follower of a path in failing does not start; its entry is nil.
EnableLogsLiveUpdate(failing) ==
    /\ Idle
    /\ fileWatchers = << >>
    /\ LET paths == PathsInOrder(Watchable(entityInstances))
       IN /\ fileWatchers' = [k \in 1..Len(paths) |-> Watcher(paths[k], paths[k] \in failing)]
          /\ tails' = [p \in DOMAIN tails \cup (Watchable(entityInstances) \ failing) |->
                          IF p \in Watchable(entityInstances) \ failing THEN NewTail
                          ELSE tails[p]]
          /\ nilFields' = IF paths = << >> THEN nilFields ELSE nilFields \ {"fileWatchers"}
    /\ lastOp' = "other"
    /\ UNCHANGED << Context, FolderToWorkWith, IsFolderTemp, LastModifiedFileTime,
                    entityInstances, CollectedInfo, Filters, OtherFiles, AggregatedLogs,
                    AggregatedThreadDumps, AggregatedStaticInfo, scanVars, worldVars,
                    historyVars, panicked, err >>
    /\ UNCHANGED ideVars

\* The records followers have contributed to the log, and the lines in hand.
LiveCount ==
    Cardinality({ k \in 1..Len(AggregatedLogs) : IsLiveRecord(AggregatedLogs[k]) })
        + Cardinality({ p \in DOMAIN tails : tails[p].pending })

\* A follower observes a new line of its file and hands it over.
TailObserve(path) ==
    /\ ~panicked
    /\ path \in DOMAIN tails
    /\ tails[path].watching
    /\ ~tails[path].pending
    /\ LiveCount < MaxLive
    /\ tails' = [tails EXCEPT ![path].pending = TRUE]
    /\ UNCHANGED << analyzerVars, scanVars, worldVars, historyVars, panicked, lastOp, err >>
    /\ UNCHANGED ideVars

\* The new record at the end of the log, the log left as it is.
LiveAppendedAtEnd(logs, name, instance, entry) ==
    AppendSeveral(logs, name, instance, << entry >>)

\* The log after a live append: the record joins the log, which is sorted again.
LiveAppended(logs, name, instance, entry) ==
    SortByTime(AppendSeveral(logs, name, instance, << entry >>))

\* The instance a followed path belongs to.
LiveInstance(path) ==
    addDynamicEntityInstance(EmptyMap, path,
                             DefaultVisibility(WatchedEntity(path), path))[path]

\* The line in hand is converted; on success its record is appended under
\* writeSyncer and the log is sorted; a line that does not convert is dropped.
TailAppend(path, line) ==
    /\ ~panicked
    /\ path \in DOMAIN tails
    /\ tails[path].pending
    /\ writeSyncer = Unlocked
    /\ LET i == WatchedEntity(path)
           converted == ConvertStringToLogs(i, line)
       IN IF converted.isErr
             THEN UNCHANGED << AggregatedLogs, appended >>
          ELSE /\ AggregatedLogs' = LiveAppended(AggregatedLogs, DynamicEntityNames[i],
                                                 LiveInstance(path), converted.entry)
               /\ appended' = AppendSeveral(appended, DynamicEntityNames[i],
                                            LiveInstance(path), << converted.entry >>)
    /\ tails' = IF tails[path].watching THEN [tails EXCEPT ![path].pending = FALSE]
                ELSE [p \in DOMAIN tails \ {path} |-> tails[p]]
    /\ lastOp' = IF scanning THEN lastOp ELSE "other"
    /\ UNCHANGED << Context, FolderToWorkWith, IsFolderTemp, fileWatchers,
                    LastModifiedFileTime, entityInstances, CollectedInfo, Filters,
                    OtherFiles, AggregatedThreadDumps, AggregatedStaticInfo, nilFields,
                    scanVars, worldVars, clearedHash, analyses, resetTemp, panicked, err >>
    /\ UNCHANGED ideVars

(***************************************************************************)
(* The installations finder: the probe of the ports a running IDE may      *)
(* listen on, and the properties of an installation.                       *)
(***************************************************************************)
\* The ports of the loop of line 122, the first MaxPorts of them.
Ports == { 63342 + k : k \in 0..(MaxPorts - 1) }

\* The goroutine of a port, before its request.  seen is the value of ides
\* that append has read.
NewProbe == [pc |-> "request", ok |-> FALSE, seen |-> << >>]

\* Lines 120-131: the result slice is nil and one goroutine per port starts.
getRunningIdes ==
    /\ ~probing
    /\ probing' = TRUE
    /\ ides' = << >>
    /\ probes' = [port \in Ports |-> NewProbe]
    /\ UNCHANGED << IdePropertiesMap, lastProperty >>
    /\ UNCHANGED << analyzerVars, scanVars, worldVars, historyVars, liveVars,
                    panicked, lastOp, err >>

\* Lines 125-126: the request of the goroutine returns, with or without an
\* error; without one the goroutine goes on to the append.
ProbeRequest(port, ok) ==
    /\ probing
    /\ probes[port].pc = "request"
    /\ probes' = [probes EXCEPT ![port].ok = ok,
                                ![port].pc = IF ok THEN "append" ELSE "done"]
    /\ UNCHANGED << ides, probing, IdePropertiesMap, lastProperty >>
    /\ UNCHANGED << analyzerVars, scanVars, worldVars, historyVars, liveVars,
                    panicked, lastOp, err >>

\* Line 127, the right-hand side: append reads the shared slice.  No lock
\* is held.
ProbeRead(port) ==
    /\ probing
    /\ probes[port].pc = "append"
    /\ probes' = [probes EXCEPT ![port].seen = ides, ![port].pc = "store"]
    /\ UNCHANGED << ides, probing, IdePropertiesMap, lastProperty >>
    /\ UNCHANGED << analyzerVars, scanVars, worldVars, historyVars, liveVars,
                    panicked, lastOp, err >>

\* Line 127, the assignment: the slice that was read, one entry longer, is
\* stored in the shared variable; then the deferred wg.Done().
ProbeStore(port) ==
    /\ probing
    /\ probes[port].pc = "store"
    /\ ides' = Append(probes[port].seen, port)
    /\ probes' = [probes EXCEPT ![port].pc = "done"]
    /\ UNCHANGED << probing, IdePropertiesMap, lastProperty >>
    /\ UNCHANGED << analyzerVars, scanVars, worldVars, historyVars, liveVars,
                    panicked, lastOp, err >>

\* Lines 132-133: wg.Wait() returns when every goroutine is done, and ides
\* is returned.
getRunningIdesReturn ==
    /\ probing
    /\ \A port \in Ports : probes[port].pc = "done"
    /\ probing' = FALSE
    /\ UNCHANGED << ides, probes, IdePropertiesMap, lastProperty >>
    /\ UNCHANGED << analyzerVars, scanVars, worldVars, historyVars, liveVars,
                    panicked, lastOp, err >>

\* The binaries of the installations on the machine.
Binaries == { "IU/bin/idea.sh", "PY/bin/pycharm.sh", "GO/bin/goland.sh" }

\* The properties the callers ask for.
PropertyNames == { "idea.log.path", "idea.config.path" }

\* The idea.properties files that exist for a binary, in the order of
\* possibleIdeaPropertiesFileLocations, each with its options.
PropertiesFiles(ideaBinary) ==
    IF ideaBinary = "IU/bin/idea.sh"
        THEN << << [name |-> "idea.log.path", value |-> "IU-logs"] >>,
                << [name |-> "idea.log.path", value |-> "IU-default"],
                   [name |-> "idea.config.path", value |-> "IU-config"] >> >>
    ELSE IF ideaBinary = "PY/bin/pycharm.sh"
        THEN << << [name |-> "idea.log.path", value |-> "PY-logs"] >> >>
    ELSE << >>

\* fillIdePropertiesMap: the options of a file join the map, an option
\* the map already has keeps its value.
RECURSIVE fillIdePropertiesMap(_, _)
fillIdePropertiesMap(options, optionsMap) ==
    IF options = << >> THEN optionsMap
    ELSE LET option == Head(options)
             filled == IF option.name \in DOMAIN optionsMap THEN optionsMap
                       ELSE [n \in DOMAIN optionsMap \cup {option.name} |->
                                IF n = option.name THEN option.value ELSE optionsMap[n]]
         IN fillIdePropertiesMap(Tail(options), filled)

\* The loop of lines 292-303 over the files, from a map collected so far.
RECURSIVE CollectOptions(_, _)
CollectOptions(files, collectedOptions) ==
    IF files = << >> THEN collectedOptions
    ELSE CollectOptions(Tail(files), fillIdePropertiesMap(Head(files), collectedOptions))

\* GetIdeProperties
GetIdeProperties(ideaBinary) == CollectOptions(PropertiesFiles(ideaBinary), EmptyMap)

\* The value of a property in a map of options, "" when it has none.
PropertyValue(options, name) == IF name \in DOMAIN options THEN options[name] ELSE ""

\* GetIdePropertyByName: the package map is filled from the binary when it
\* is empty, and the value it holds for the name is returned.
GetIdePropertyByName(name, ideaBinary) ==
    /\ LET loaded == IF Cardinality(DOMAIN IdePropertiesMap) = 0
                         THEN GetIdeProperties(ideaBinary)
                      ELSE IdePropertiesMap
       IN /\ IdePropertiesMap' = loaded
          /\ lastProperty' = << name, ideaBinary, PropertyValue(loaded, name) >>
    /\ UNCHANGED << ides, probes, probing >>
    /\ UNCHANGED << analyzerVars, scanVars, worldVars, historyVars, liveVars,
                    panicked, lastOp, err >>

\* The contexts the caller may pass.
Contexts == { "ctx" }

Next ==
    \/ \E path \in OpenedRoots \cup unzipped, ctx \in Contexts :
            InitLogDirectoryCall(path, ctx)
    \/ \E path \in DOMAIN tasks : TaskDynamic(path)
    \/ \E path \in DOMAIN tasks : TaskStatic(path)
    \/ \E path \in DOMAIN tasks : TaskFinal(path)
    \/ InitLogDirectoryReturn
    \/ Clear
    \/ GetStaticInfo
    \/ \E key \in ThreadDumpKeys : GetThreadDump(key)
    \/ \E f \in FilterInputs : SetFilters(f)
    \/ GenerateFiltersCall
    \/ \E src \in Archives : UnzipToTempFodler(src)
    \/ \E failing \in {{}} \cup { {p} : p \in Watchable(entityInstances) } :
            EnableLogsLiveUpdate(failing)
    \/ \E path \in DOMAIN tails : TailObserve(path)
    \/ \E path \in DOMAIN tails, line \in LiveLines : TailAppend(path, line)

\* In Spec a locked section is one step.  While a goroutine holds writeSyncer
\* no other goroutine enters a section, and the one write made outside the
\* mutex, line 582, is to CollectedInfo, which no section reads: the states
\* between Lock and Unlock add no outcome.
Spec == Init /\ [][Next]_vars

\* The scans alone, of every directory of the user, with Lock as a step of
\* its own.
LockNext ==
    \/ \E path \in UserRoots, ctx \in Contexts : InitLogDirectoryCall(path, ctx)
    \/ \E path \in DOMAIN tasks : TaskLock(path)
    \/ \E path \in DOMAIN tasks : UnlockDynamic(path)
    \/ \E path \in DOMAIN tasks : TaskStatic(path)
    \/ \E path \in DOMAIN tasks : UnlockFinal(path)
    \/ InitLogDirectoryReturn

LockSpec == Init /\ [][LockNext]_vars

\* The Analyzer without a static entity: the scans and the accessors.
BareNext ==
    \/ \E path \in OpenedRoots, ctx \in Contexts : InitLogDirectoryCall(path, ctx)
    \/ \E path \in DOMAIN tasks : TaskDynamic(path)
    \/ \E path \in DOMAIN tasks : TaskFinal(path)
    \/ InitLogDirectoryReturn
    \/ Clear
    \/ GetStaticInfo
    \/ \E key \in ThreadDumpKeys : GetThreadDump(key)

BareSpec == BareInit /\ [][BareNext]_vars

\* The installations finder.
IdeNext ==
    \/ getRunningIdes
    \/ \E port \in Ports, ok \in BOOLEAN : ProbeRequest(port, ok)
    \/ \E port \in Ports : ProbeRead(port)
    \/ \E port \in Ports : ProbeStore(port)
    \/ getRunningIdesReturn
    \/ \E name \in PropertyNames, ideaBinary \in Binaries :
            GetIdePropertyByName(name, ideaBinary)

IdeSpec == Init /\ [][IdeNext]_vars

(***************************************************************************)
(* Properties.                                                             *)
(***************************************************************************)
\* InitLogDirectory has just returned.
Returned == lastOp = "InitLogDirectory"

\* The entries the scan that has just returned visited.
Visited == WalkDir(FolderToWorkWith, disk)

\* Some registered descriptor's ignore predicate matches the path.
Ignored(path) == \E k \in DynIdx : HasCheckIgnoredPath(k) /\ CheckIgnoredPath(k, path)

\* Descriptor i matches the path and converts it to at least one record.
Produces(i, path) ==
    CheckPath(i, path) /\ Len(ConvertPathToLogs(i, path).entries) >= 1

\* How often the record occurs in the log.
Occurrences(logs, record) == Cardinality({ k \in 1..Len(logs) : logs[k] = record })

\* Every record of descriptor i for the path is in the aggregate exactly
\* once, attributed to the descriptor's instance for the path.
ExactlyOnce(i, path) ==
    /\ path \in DOMAIN entityInstances[i]
    /\ \A n \in 1..Len(ConvertPathToLogs(i, path).entries) :
          LET e == ConvertPathToLogs(i, path).entries[n]
          IN Occurrences(AggregatedLogs,
                         [Severity |-> e.Severity, Time |-> e.Time, Text |-> e.Text,
                          EntityName |-> DynamicEntityNames[i],
                          ID |-> entityInstances[i][path].Hash,
                          Visible |-> entityInstances[i][path].Visible]) = 1

\* C1: after a scan in which no descriptor produced a record, IsEmpty()
\* reports true and InitLogDirectory returns "could not find logs elements
\* inside"; when a record was produced it returns nil.
C1_EmptyScanIsReported ==
    Returned =>
        IF appended = << >>
            THEN IsEmpty /\ err = "could not find logs elements inside"
        ELSE err = "nil"

PlaceIn(log, record) == CHOOSE k \in 1..Len(log) : log[k] = record

\* C3: after InitLogDirectory returns, AggregatedLogs holds the appended
\* records sorted non-decreasingly by Time, records of equal Time in the
\* order in which they were appended.
C3_SortedAndStable ==
    Returned =>
        /\ Len(AggregatedLogs) = Len(appended)
        /\ \A k \in 1..Len(appended) : Occurrences(AggregatedLogs, appended[k]) = 1
        /\ \A a \in 1..Len(AggregatedLogs) : \A b \in 1..Len(AggregatedLogs) :
              a < b =>
                /\ AggregatedLogs[a].Time <= AggregatedLogs[b].Time
                /\ AggregatedLogs[a].Time = AggregatedLogs[b].Time =>
                      PlaceIn(appended, AggregatedLogs[a])
                          < PlaceIn(appended, AggregatedLogs[b])

\* C3 witness: the sort moved a record, and two records of different paths
\* share a Time.
C3_Witness ==
    /\ Returned
    /\ AggregatedLogs # appended
    /\ \E a \in 1..Len(AggregatedLogs) : \E b \in 1..Len(AggregatedLogs) :
          /\ a < b
          /\ AggregatedLogs[a].Time = AggregatedLogs[b].Time
          /\ AggregatedLogs[a].ID # AggregatedLogs[b].ID

\* A result without content: nil, or a collection of zero elements.
IsEmptyResult(pointer) == pointer.isNil \/ pointer.size = 0

\* C4: right after Clear(), GetLogs, GetOtherFiles, GetFilters and
\* GetStaticInfo each yield nil or a collection of zero elements.
C4_ClearEmptiesEveryAccessor ==
    lastOp = "Clear" =>
        /\ IsEmptyResult(GetLogs)
        /\ IsEmptyResult(GetOtherFiles)
        /\ IsEmptyResult(GetFilters)
        /\ IsEmptyResult(PointerTo(StaticInfoAfterGet))

\* C5: a directory that UnzipToTempFodler returned and that was the working
\* directory when a reset ran is no longer on disk.
C5_ResetRemovesTempDirectory == \A dir \in resetTemp : dir \notin disk

\* C6: every entry of every entityInstances map has Hash = getHash of its
\* path key, so a path scanned again after a reset gets the identifier it
\* had before.
C6_HashIsFunctionOfPath ==
    \A i \in DynIdx : \A path \in DOMAIN entityInstances[i] :
        /\ entityInstances[i][path].Hash = getHash(path)
        /\ path \in DOMAIN clearedHash =>
              entityInstances[i][path].Hash = clearedHash[path]

\* C6 witness: a path has an instance again after a reset cleared its
\* instance, next to another instance of the same descriptor.
C6_Witness ==
    \E i \in DynIdx : \E path \in DOMAIN entityInstances[i] :
        /\ path \in DOMAIN clearedHash
        /\ Cardinality(DOMAIN entityInstances[i]) >= 2

\* No descriptor, dynamic or static, matches the path.
Unmatched(path) ==
    /\ \A i \in DynIdx : ~CheckPath(i, path)
    /\ \A s \in StaticIdx : ~StaticCheckPath(s, path)

\* The name of the path starts with a dot.
Hidden(path) == Base(path)[1] = "."

InOtherFiles(path) == \E k \in 1..Len(OtherFiles) : OtherFiles[k] = path

\* The scan filed the path as collected.
Collected(path) ==
    \/ Ignored(path)
    \/ path \in InstancePaths(entityInstances)
    \/ \E s \in StaticIdx : StaticCheckPath(s, path)

\* C7, as claimed: after a scan, every visited path, file or directory, that
\* no entity matches and that is not hidden is in OtherFiles and is a key of
\* no entityInstances map.
C7_UnmatchedPathsAreOtherFiles ==
    Returned =>
        \A path \in Visited :
            (Unmatched(path) /\ ~Hidden(path)) =>
                InOtherFiles(path) /\ path \notin InstancePaths(entityInstances)

\* C7, amended: the same for the visited files (not directories) that no
\* ignore predicate matches either and that do not lie inside a path the
\* scan collected.
C7_UnmatchedFilesAreOtherFiles ==
    Returned =>
        \A path \in Visited :
            ( /\ Unmatched(path) /\ ~Hidden(path)
              /\ ~IsDir(path)
              /\ ~Ignored(path)
              /\ ~(\E c \in Visited : Collected(c) /\ IsBelow(path, c)) ) =>
                InOtherFiles(path) /\ path \notin InstancePaths(entityInstances)

\* C7 witness: a scan has returned that visited an unmatched plain file, and
\* an unmatched file inside a collected directory.
C7_Witness ==
    /\ Returned
    /\ \E path \in Visited :
          /\ Unmatched(path) /\ ~Hidden(path) /\ ~IsDir(path) /\ ~Ignored(path)
          /\ InOtherFiles(path)
    /\ \E path \in Visited :
          /\ Unmatched(path) /\ ~Hidden(path) /\ ~IsDir(path)
          /\ \E c \in Visited : Collected(c) /\ IsBelow(path, c)

\* The path was claimed: a descriptor registered an instance for it, or a
\* static entity matched it.
Claimed(path) ==
    \/ path \in InstancePaths(entityInstances)
    \/ \E s \in StaticIdx : StaticCheckPath(s, path)

\* C8: in every state observable after a scan, no claimed path is a member
\* of OtherFiles.
C8_ClaimedPathsAreNotOtherFiles ==
    ~scanning => \A k \in 1..Len(OtherFiles) : ~Claimed(OtherFiles[k])

\* C8 witness: a scan has returned with a dynamic instance, a static match
\* and an other file.
C8_Witness ==
    /\ Returned
    /\ OtherFiles # << >>
    /\ InstancePaths(entityInstances) # {}
    /\ \E path \in Visited : \E s \in StaticIdx : StaticCheckPath(s, path)

\* A step of Analyzer.Clear, alone or at the start of InitLogDirectory.
ResetStep ==
    \/ Clear
    \/ \E path \in UserRoots \cup unzipped, ctx \in Contexts :
            InitLogDirectoryCall(path, ctx)

\* C9: a folder is analysed at most once between two resets; a call for a
\* cached key leaves the cache as it is and analyses nothing; only a reset
\* removes an entry of the cache.
C9_AnalysedOncePerKey ==
    [][ /\ \A key \in DOMAIN analyses' : analyses'[key] <= 1
        /\ \A key \in ThreadDumpKeys :
              (IsCached(AggregatedThreadDumps, key) /\ ~ResetStep) =>
                /\ key \in DOMAIN AggregatedThreadDumps'
                /\ AggregatedThreadDumps'[key] = AggregatedThreadDumps[key]
                /\ analyses'[key] = analyses[key] ]_vars

\* C9 witness: GetThreadDump has just answered from the cache.
C9_Witness ==
    /\ lastOp = "GetThreadDump (cached)"
    /\ \E key \in DOMAIN analyses : analyses[key] = 1

\* What SetFilters(f) is to leave: the same groups and entries, Checked set
\* to f[ID] where ID is a key of f, everything else as it was, no failure.
SetFiltersEffect(f) ==
    /\ DOMAIN Filters' = DOMAIN Filters
    /\ \A name \in DOMAIN Filters :
          /\ Len(Filters'[name]) = Len(Filters[name])
          /\ \A k \in 1..Len(Filters[name]) :
                LET old == Filters[name][k]
                    new == Filters'[name][k]
                IN /\ new.ID = old.ID
                   /\ new.Label = old.Label
                   /\ new.EntityName = old.EntityName
                   /\ new.Color = old.Color
                   /\ new.Checked = IF old.ID \in DOMAIN f THEN f[old.ID]
                                     ELSE old.Checked
    /\ ~panicked'

\* C10: SetFilters(f) sets Checked to f[id] for the entries whose ID is a
\* key of f, changes nothing else, adds and removes no entry, and does not
\* fail when f holds identifiers of no entry.
C10_SetFiltersSetsCheckedOnly ==
    [][ \A f \in FilterInputs : SetFilters(f) => SetFiltersEffect(f) ]_vars

\* C10 witness: an entry was unchecked by SetFilters while an entry of
\* another group kept its flag.
C10_Witness ==
    /\ "idea.log" \in DOMAIN Filters
    /\ "Thread Dumps" \in DOMAIN Filters
    /\ \E k \in 1..Len(Filters["idea.log"]) : ~Filters["idea.log"][k].Checked
    /\ \E k \in 1..Len(Filters["Thread Dumps"]) : Filters["Thread Dumps"][k].Checked

\* The descriptor a group of the index is keyed by.
OwnerOf(name) == CHOOSE i \in DynIdx : DynamicEntityNames[i] = name

\* The index holds, in the group of each descriptor's Name, exactly one
\* entry for each of the descriptor's instances, and nothing else.
FiltersMatchInstances ==
    /\ DOMAIN Filters =
          { DynamicEntityNames[i] : i \in { j \in DynIdx : DOMAIN entityInstances[j] # {} } }
    /\ \A name \in DOMAIN Filters :
          /\ Len(Filters[name]) = Cardinality(DOMAIN entityInstances[OwnerOf(name)])
          /\ \A path \in DOMAIN entityInstances[OwnerOf(name)] :
                Cardinality({ k \in 1..Len(Filters[name]) :
                                Filters[name][k] =
                                    FilterEntry(OwnerOf(name), path,
                                                entityInstances[OwnerOf(name)][path]) }) = 1

\* C11: after GenerateFilters(), at the end of InitLogDirectory or called
\* again, Filters holds exactly one entry for every (descriptor, path) pair
\* of the entityInstances maps and no other entry, each in the group keyed
\* by its descriptor's Name; a repeated call adds no duplicate.
C11_OneEntryPerInstance ==
    lastOp \in { "InitLogDirectory", "GenerateFilters" } => FiltersMatchInstances

\* C11 witness: GenerateFilters was called again on an index of two groups,
\* one of them with two entries.
C11_Witness ==
    /\ lastOp = "GenerateFilters"
    /\ Cardinality(DOMAIN Filters) >= 2
    /\ \E name \in DOMAIN Filters : Len(Filters[name]) >= 2

\* The log is in non-decreasing order of Time.
Sorted(logs) ==
    \A a \in 1..Len(logs) : \A b \in 1..Len(logs) :
        a < b => logs[a].Time <= logs[b].Time

\* The places of the log that hold a record a follower contributed.
LivePlaces(logs) == { k \in 1..Len(logs) : IsLiveRecord(logs[k]) }

\* C12: with live update enabled, every well-formed line a follower hands
\* over makes AggregatedLogs longer by exactly one record and leaves it
\* sorted by Time, the record in the place of its timestamp; a line that
\* does not convert leaves the log as it is.
C12_LiveAppendAddsOneAndKeepsSorted ==
    [][ \A path \in DOMAIN tails : \A line \in LiveLines :
            TailAppend(path, line) =>
                IF line.ok
                    THEN /\ Len(AggregatedLogs') = Len(AggregatedLogs) + 1
                         /\ Sorted(AggregatedLogs')
                ELSE AggregatedLogs' = AggregatedLogs ]_vars

\* C12 witness: two live records have joined the log of a scan, neither of
\* them at its end.
C12_Witness ==
    /\ \E p \in DOMAIN tails : tails[p].watching
    /\ Cardinality(LivePlaces(AggregatedLogs)) = 2
    /\ Len(AggregatedLogs) > 2
    /\ \A k \in LivePlaces(AggregatedLogs) :
          \E n \in (k + 1)..Len(AggregatedLogs) :
              /\ ~IsLiveRecord(AggregatedLogs[n])
              /\ AggregatedLogs[n].Time > AggregatedLogs[k].Time

\* Clear has just returned.
JustCleared == lastOp \in { "Clear", "Clear; Clear" }

\* No follower is following and the watcher list is empty.
NoWatch ==
    /\ fileWatchers = << >>
    /\ \A p \in DOMAIN tails : ~tails[p].watching

\* C13: when Clear() has returned no follower is following and the watcher
\* list is empty, and as long as no watch has been started again no record
\* of a follower is in AggregatedLogs.
C13_ClearStopsEveryWatch ==
    /\ JustCleared => NoWatch /\ ~panicked
    /\ NoWatch => LivePlaces(AggregatedLogs) = {}

\* What Clear() is to leave: an empty log, index, list of other files, caches
\* and instance maps, no watch, IsFolderTemp false.
Cleared ==
    /\ AggregatedLogs = << >>
    /\ Filters = EmptyMap
    /\ OtherFiles = << >>
    /\ AggregatedThreadDumps = EmptyMap
    /\ AggregatedStaticInfo = EmptyMap
    /\ \A i \in DynIdx : entityInstances[i] = EmptyMap
    /\ \A i \in StaticIdx : CollectedInfo[i] = ZeroStaticInfo
    /\ NoWatch
    /\ ~IsFolderTemp

\* C14: Clear() does not fail, on the initial analyzer or later, and leaves
\* the cleared state; a Clear() that follows a Clear() changes nothing of
\* the analyzer or of the file system.
C14_ClearIsIdempotent ==
    [][ Clear =>
            /\ ~panicked'
            /\ Cleared'
            /\ JustCleared => /\ analyzerVars' = analyzerVars
                              /\ worldVars' = worldVars
                              /\ tails' = tails ]_vars

\* C14 witness: Clear() was called twice in a row on an analyzer that has
\* not scanned yet, and twice in a row after a scan with a watch.
C14_Witness ==
    /\ lastOp = "Clear; Clear"
    /\ Cleared
    /\ Context = "nil" \/ DOMAIN tails # {}

\* The capture folders of the scanned tree: the directories whose name
\* contains "threadDump".
CaptureFolders == { p \in Visited : IsDir(p) /\ HasToken(Base(p), "threadDump") }

\* The places of the log that hold a record of severity FREEZE.
FreezePlaces(logs) == { k \in 1..Len(logs) : logs[k].Severity = "FREEZE" }

\* C15: a scan of a tree with one capture folder, whatever the folder holds,
\* leaves exactly one record of severity FREEZE: its text is "Freeze
\* started: " and the folder's base name, its Time the timestamp of the
\* folder name.
C15_OneFreezeRecordPerCaptureFolder ==
    (Returned /\ Cardinality(CaptureFolders) = 1) =>
        /\ Cardinality(FreezePlaces(AggregatedLogs)) = 1
        /\ \A p \in CaptureFolders : \A k \in FreezePlaces(AggregatedLogs) :
              /\ AggregatedLogs[k].Text = << "Freeze started: " >> \o Base(p)
              /\ AggregatedLogs[k].Time = GetTimeStampFromThreadDump(p)

\* C19: after a scan, a descriptor whose CheckPath matches a visited path
\* and whose converter yields no record (nil or of length zero) has no
\* instance for the path, and a regular, not hidden file that only such
\* descriptors match is in OtherFiles.
C19_EmptyConversionIsNoMatch ==
    Returned =>
        \A path \in Visited :
            LET empty == { i \in DynIdx : CheckPath(i, path)
                                          /\ Len(ConvertPathToLogs(i, path).entries) = 0 }
            IN ~Ignored(path) =>
                /\ \A i \in empty : path \notin DOMAIN entityInstances[i]
                /\ ( /\ empty # {}
                     /\ \A i \in DynIdx \ empty : ~CheckPath(i, path)
                     /\ \A j \in StaticIdx : ~StaticCheckPath(j, path)
                     /\ ~IsDir(path) /\ ~Hidden(path) ) => InOtherFiles(path)

\* What the goroutines of a scan share.
SharedState == << AggregatedLogs, entityInstances, OtherFiles, collectedFiles, CollectedInfo >>

\* What the goroutines of a scan write inside a locked section.
LockedState == << AggregatedLogs, entityInstances, OtherFiles, collectedFiles >>

\* The writes of lines 609-610 and 500-506 are made by the holder of writeSyncer.
SectionWritesHoldWriteSyncer ==
    [][ \A path \in DOMAIN tasks :
            ( /\ scanning /\ scanning'
              /\ tasks'[path] # tasks[path]
              /\ LockedState' # LockedState ) => writeSyncer = path ]_vars

\* C20: during a scan, a step of a goroutine that changes AggregatedLogs, an
\* entityInstances map, OtherFiles, collectedFiles or a CollectedInfo is
\* taken while that goroutine holds writeSyncer.
C20_WritesHoldWriteSyncer ==
    [][ \A path \in DOMAIN tasks :
            ( /\ scanning /\ scanning'
              /\ tasks'[path] # tasks[path]
              /\ SharedState' # SharedState ) => writeSyncer = path ]_vars

\* What one goroutine appends for a path, from descriptor i on.
RECURSIVE AppendedForPath(_, _, _)
AppendedForPath(logs, path, i) ==
    IF DynEvent(path, i).kind # "write" THEN logs
    ELSE LET j == DynEvent(path, i).j
             instance == addDynamicEntityInstance(EmptyMap, path,
                                                  DefaultVisibility(j, path))[path]
         IN AppendedForPath(CollectedLogs(logs, j, path, instance), path, j + 1)

\* The log of a scan whose goroutines run one after the other, in the
\* order of the walk.
RECURSIVE AppendedInWalkOrder(_, _)
AppendedInWalkOrder(logs, paths) ==
    IF paths = << >> THEN logs
    ELSE AppendedInWalkOrder(AppendedForPath(logs, Head(paths), 1), Tail(paths))

\* C16: for a given tree and registry, AggregatedLogs after InitLogDirectory
\* is the same sequence under every interleaving of the goroutines of the
\* scan, records of equal Time included: it is the sequence the scan yields
\* when the goroutines run one after the other.
C16_LogsIndependentOfInterleaving ==
    (Returned /\ LivePlaces(AggregatedLogs) = {}) =>
        AggregatedLogs = SortByTime(AppendedInWalkOrder(<< >>, PathsInOrder(Visited)))

\* C17: after a scan, a visited path that some descriptor's ignore predicate
\* matches has no instance in any descriptor, no record in AggregatedLogs
\* and no place in OtherFiles.
C17_IgnoredPathContributesNothing ==
    Returned =>
        \A path \in Visited :
            Ignored(path) =>
                /\ path \notin InstancePaths(entityInstances)
                /\ \A k \in 1..Len(AggregatedLogs) :
                      IsLiveRecord(AggregatedLogs[k]) \/ AggregatedLogs[k].ID # getHash(path)
                /\ ~InOtherFiles(path)

\* C18: for every path of the file system, CollectLogsFromDynamicEntities
\* appends the same records, creates the same instances and returns the
\* same value whatever the order in which the descriptors were registered.
C18_OutcomeIndependentOfRegistrationOrder ==
    \A path \in disk : \A order \in RegistryOrders :
        Classify(order, 1, path, NoOutcome) = Classify(RegisteredOrder, 1, path, NoOutcome)

\* C21: the step in which ParseLogDirectory filters OtherFiles and
\* InitLogDirectory sorts the log and builds the index is taken only when
\* every goroutine of the scan has finished and none holds writeSyncer.
C21_ReturnsAfterEveryTask ==
    [][ (scanning /\ ~scanning') =>
            /\ \A p \in DOMAIN tasks : tasks[p].done
            /\ writeSyncer = Unlocked ]_vars

\* C21 witness: a scan whose goroutines appended records and filed other
\* files has returned.
C21_Witness ==
    /\ Returned
    /\ Len(AggregatedLogs) >= 2
    /\ Len(OtherFiles) >= 1
    /\ tasks = EmptyMap

\* The scan in progress, or the last one, is of a root that is not on disk:
\* WalkDir calls visit once, for the root, with a nil entry and the error.
RootUnopenable ==
    /\ lastOp \in { "scan", "InitLogDirectory" }
    /\ FolderToWorkWith \notin disk

\* C22: a scan of a root that cannot be opened does not end the process,
\* and InitLogDirectory returns an error value for it.
C22_UnopenableRootIsReported ==
    RootUnopenable =>
        /\ ~panicked
        /\ Returned => err # "nil"

\* C23: whatever UnzipToTempFodler, InitLogDirectory and Clear calls were
\* made, every directory and file the caller supplied is still on disk: only
\* what UnzipToTempFodler created is ever removed.
C23_OnlyTempDirectoriesAreRemoved ==
    \A p \in UserDirs \cup UserFiles : p \in disk

\* C27: after a scan that filed other files, GetOtherFiles() returns the
\* collection, all of it, whether or not the scan produced a log record.
C27_OtherFilesAreExposed ==
    (Returned /\ Len(OtherFiles) > 0) =>
        /\ ~GetOtherFiles.isNil
        /\ GetOtherFiles.size = Len(OtherFiles)

\* C24: a call of GetStaticInfo returns, and so does a call of
\* GetThreadDump on an Analyzer whose cache Clear has made: neither calls
\* itself without end.
C24_AccessorsReturn ==
    [][ /\ GetStaticInfo => ~panicked'
        /\ \A key \in ThreadDumpKeys :
              ( /\ GetThreadDump(key)
                /\ "AggregatedThreadDumps" \notin nilFields ) => ~panicked' ]_vars

\* How many entries of the slice are of the port.
EntriesOf(port, slice) == Cardinality({ k \in 1..Len(slice) : slice[k] = port })

\* C25: when getRunningIdes has returned, its result holds exactly one
\* entry for every port whose request succeeded and none for the others.
C25_OneEntryPerSuccessfulProbe ==
    (~probing /\ probes # EmptyMap) =>
        \A port \in Ports : EntriesOf(port, ides) = IF probes[port].ok THEN 1 ELSE 0

\* C26: the value GetIdePropertyByName(name, ideaBinary) returned is the
\* value of the property in the properties files of ideaBinary.
C26_PropertyIsOfTheGivenBinary ==
    lastProperty # << >> =>
        lastProperty[3] = PropertyValue(GetIdeProperties(lastProperty[2]), lastProperty[1])

====
